---- MODULE Spec2Model ----
(***************************************************************************)
(* The view-driven chunk streaming scheduler of the anvil_loading example: *)
(* the per-tick systems remove_unviewed_chunks, update_client_views and    *)
(* send_recv_chunks on the main thread, the anvil_worker thread, and the   *)
(* two unbounded channels between them.                                    *)
(***************************************************************************)
EXTENDS Integers, Sequences, FiniteSets, TLC

\* ---------------------------------------------------------------- bounds
MaxX == 1
MaxViewDist == 1
NumClients == 2
MaxEvents == 3
MaxFailures == 1

\* The columns of the world a run follows: the row through the spawn column.
Strip == {<<x, 0>> : x \in (0 - MaxX)..MaxX}
ClientIds == 1..NumClients

\* ------------------------------------------------------- data and helpers
\* Option<Priority>: None is the empty sequence, Some(p) is <<p>>.
None == <<>>
Some(p) == <<p>>

\* The chunk column that holds SPAWN_POS = (0.0, 256.0, 0.0).
SpawnChunk == <<0, 0>>

Range(s) == {s[i] : i \in 1..Len(s)}

Abs(n) == IF n < 0 THEN 0 - n ELSE n

MinOf(a, b) == IF a <= b THEN a ELSE b

MaxOf(a, b) == IF a >= b THEN a ELSE b

\* ChunkPos::distance_squared
DistanceSquared(a, b) ==
    (a[1] - b[1]) * (a[1] - b[1]) + (a[2] - b[2]) * (a[2] - b[2])

\* A view is a centre and a view distance.
MkView(p, d) == [pos |-> p, dist |-> d]

\* queue_pos that overwrites an occupied entry whatever it holds.
queue_pos_overwrite(pend, inst, view, pos) ==
    IF pos \notin inst
    THEN IF pos \in DOMAIN pend
         THEN [pend EXCEPT ![pos] = Some(DistanceSquared(view.pos, pos))]
         ELSE pend @@ (pos :> Some(DistanceSquared(view.pos, pos)))
    ELSE pend

\* queue_pos without the lookup in the instance.
queue_pos_unchecked(pend, inst, view, pos) ==
    IF pos \in DOMAIN pend
    THEN IF pend[pos] # None
         THEN [pend EXCEPT ![pos] =
                   Some(MinOf(pend[pos][1], DistanceSquared(view.pos, pos)))]
         ELSE pend
    ELSE pend @@ (pos :> Some(DistanceSquared(view.pos, pos)))

\* queue_pos that queues an entry again when it finds it without a priority.
queue_pos_requeue(pend, inst, view, pos) ==
    IF pos \notin inst
    THEN IF pos \in DOMAIN pend
         THEN IF pend[pos] # None
              THEN [pend EXCEPT ![pos] =
                        Some(MinOf(pend[pos][1], DistanceSquared(view.pos, pos)))]
              ELSE [pend EXCEPT ![pos] = Some(DistanceSquared(view.pos, pos))]
         ELSE pend @@ (pos :> Some(DistanceSquared(view.pos, pos)))
    ELSE pend

\* queue_pos that keeps the larger of the two priorities.
queue_pos_max(pend, inst, view, pos) ==
    IF pos \notin inst
    THEN IF pos \in DOMAIN pend
         THEN IF pend[pos] # None
              THEN [pend EXCEPT ![pos] =
                        Some(MaxOf(pend[pos][1], DistanceSquared(view.pos, pos)))]
              ELSE pend
         ELSE pend @@ (pos :> Some(DistanceSquared(view.pos, pos)))
    ELSE pend

\* The closure queue_pos of update_client_views.
queue_pos(pend, inst, view, pos) ==
    IF pos \notin inst
    THEN IF pos \in DOMAIN pend
         THEN IF pend[pos] # None
              THEN [pend EXCEPT ![pos] =
                        Some(MinOf(pend[pos][1], DistanceSquared(view.pos, pos)))]
              ELSE pend
         ELSE pend @@ (pos :> Some(DistanceSquared(view.pos, pos)))
    ELSE pend

\* for_each(queue_pos) over the candidates of one client.
RECURSIVE QueueEach(_, _, _, _)
QueueEach(pend, inst, view, todoPos) ==
    IF todoPos = {} THEN pend
    ELSE LET pos == CHOOSE q \in todoPos : TRUE
         IN QueueEach(queue_pos(pend, inst, view, pos), inst, view, todoPos \ {pos})

\* HashMap::remove
RemoveKey(pend, pos) == [q \in DOMAIN pend \ {pos} |-> pend[q]]

\* The loop over receiver.drain(): the columns inserted so far, the table,
\* and whether the assertion on remove held for every result.
RECURSIVE Integrate(_, _, _, _)
Integrate(inst, pend, ok, results) ==
    IF results = <<>> THEN [inst |-> inst, pend |-> pend, ok |-> ok]
    ELSE LET pos == Head(results)
         IN Integrate(inst \cup {pos}, RemoveKey(pend, pos),
                      ok /\ pos \in DOMAIN pend, Tail(results))

\* The entries with a priority above zero.
DispatchableSkipZero(pend) == {p \in DOMAIN pend : pend[p] # None /\ pend[p][1] > 0}

\* The entries the take() loop finds a priority in.
Dispatchable(pend) == {p \in DOMAIN pend : pend[p] # None}

\* A loop that reads every priority and leaves it in place.
TakeNothing(pend) == pend

\* pending after the loop that takes every priority.
TakeAll(pend) == [p \in DOMAIN pend |-> None]

\* to_send sorted by descending priority.
RECURSIVE DescendingOrders(_)
DescendingOrders(pairs) ==
    IF pairs = {} THEN {<<>>}
    ELSE LET firsts == {a \in pairs : \A b \in pairs : a[1] >= b[1]}
         IN UNION {{<<a>> \o rest : rest \in DescendingOrders(pairs \ {a})} : a \in firsts}

\* to_send after sort_unstable_by_key: every arrangement of the taken
\* (priority, pos) pairs in ascending priority; equal keys in any order.
RECURSIVE SortedOrders(_)
SortedOrders(pairs) ==
    IF pairs = {} THEN {<<>>}
    ELSE LET firsts == {a \in pairs : \A b \in pairs : a[1] <= b[1]}
         IN UNION {{<<a>> \o rest : rest \in SortedOrders(pairs \ {a})} : a \in firsts}

\* The channel after try_send of each position in turn; the results are
\* dropped, so a send to a disconnected channel leaves no trace.
TrySendAll(queue, connected, msgs) == IF connected THEN queue \o msgs ELSE queue

\* The positions of to_send, in order.
Positions(seq) == [i \in 1..Len(seq) |-> seq[i][2]]

\* ------------------------------------------------------------ the schedule
\* A schedule that runs send_recv_chunks before update_client_views.
ScheduleRecvFirst ==
    <<"remove_unviewed_chunks", "send_recv_chunks", "update_client_views">>

\* The systems of main() in their .after() order.
Schedule == <<"remove_unviewed_chunks", "update_client_views", "send_recv_chunks">>

IndexOf(name) == CHOOSE i \in 1..Len(Schedule) : Schedule[i] = name

After(name) ==
    IF IndexOf(name) < Len(Schedule) THEN Schedule[IndexOf(name) + 1] ELSE "end"

\* ------------------------------------------------------------------- state
VARIABLES
    region,      \* the columns of the world this run follows
    clients,     \* connected clients: id -> [view, old_view, added]
    chunks,      \* the columns present in the instance
    pending,     \* GameState.pending: ChunkPos -> Option<Priority>
    sender_q,    \* the channel of GameState.sender (main to worker)
    receiver_q,  \* the channel of GameState.receiver (worker to main)
    loading,     \* the worker: None while in recv(), Some(pos) in get_chunk
    worker_alive,\* the worker thread is running and holds its channel ends
    lost,        \* columns whose get_chunk ended without a chunk
    warned,      \* columns the worker logged a warning for
    pc,          \* "event_loop", the system to run next, or "end"
    todo,        \* clients update_client_views has yet to visit
    to_send,     \* the sorted to_send vector of this tick
    drained,     \* the results receiver.drain() yielded this tick
    evicted,     \* the chunks retain_chunks dropped this tick
    ran,         \* the steps this tick has run, in order
    events,      \* inputs consumed from the event loop so far
    panicked     \* the assertion in send_recv_chunks failed

vars == <<region, clients, chunks, pending, sender_q, receiver_q, loading,
          worker_alive, lost, warned, pc, todo, to_send, drained, evicted, ran,
          events, panicked>>

mainVars == <<region, clients, chunks, pending, pc, todo, to_send, drained, evicted,
              ran, events, panicked>>

\* ChunkView::iter, as a set: every followed column within the view distance
\* of the centre on both axes.
ViewChunks(v) ==
    {p \in region : /\ Abs(p[1] - v.pos[1]) <= v.dist
                    /\ Abs(p[2] - v.pos[2]) <= v.dist}

\* ChunkView::diff
ViewDiff(v, old) == ViewChunks(v) \ ViewChunks(old)

\* Candidates that treat a new client like any other.
CandidatesDiffOnly(cl) ==
    IF cl.old_view # cl.view THEN ViewDiff(cl.view, cl.old_view) ELSE {}

\* Candidates with the diff taken the wrong way round.
CandidatesLeft(cl) ==
    IF cl.added THEN ViewChunks(cl.view)
    ELSE IF cl.old_view # cl.view THEN ViewDiff(cl.old_view, cl.view)
    ELSE {}

\* The columns queue_pos is called on for one client.
Candidates(cl) ==
    IF cl.added THEN ViewChunks(cl.view)
    ELSE IF cl.old_view # cl.view THEN ViewDiff(cl.view, cl.old_view)
    ELSE {}

\* Instance chunk is_viewed: some client's current view holds the column.
IsViewed(pos) == \E c \in DOMAIN clients : pos \in ViewChunks(clients[c].view)

\* retain_chunks that keeps every chunk.
RetainedAll(inst) == inst

\* retain_chunks with a predicate that is always false.
RetainedNone(inst) == {}

\* retain_chunks with the predicate negated.
RetainedUnviewed(inst) == {pos \in inst : ~IsViewed(pos)}

\* The chunks retain_chunks keeps.
Retained(inst) == {pos \in inst : IsViewed(pos)}

\* The state setup() leaves behind.
Init ==
    /\ region = Strip
    /\ clients = <<>>
    /\ chunks = {}
    /\ pending = <<>>
    /\ sender_q = <<>>
    /\ receiver_q = <<>>
    /\ loading = None
    /\ worker_alive = TRUE
    /\ lost = {}
    /\ warned = {}
    /\ pc = "event_loop"
    /\ todo = {}
    /\ to_send = <<>>
    /\ drained = {}
    /\ evicted = {}
    /\ ran = <<>>
    /\ events = 0
    /\ panicked = FALSE

\* ------------------------------------------------- inputs of the event loop
EventFrame ==
    /\ events' = events + 1
    /\ UNCHANGED <<region, chunks, pending, sender_q, receiver_q, loading,
                   lost, warned, pc, todo, to_send, drained, ran, panicked,
                   worker_alive, evicted>>

\* A client connects; init_clients places it at SPAWN_POS.
Join(d) ==
    /\ pc = "event_loop"
    /\ events < MaxEvents
    /\ DOMAIN clients # ClientIds
    /\ LET c == CHOOSE i \in ClientIds \ DOMAIN clients :
                    \A j \in ClientIds \ DOMAIN clients : i <= j
       IN clients' = clients @@ (c :> [view |-> MkView(SpawnChunk, d),
                                       old_view |-> MkView(SpawnChunk, d),
                                       added |-> TRUE])
    /\ EventFrame

\* A client's position or view distance changes.
Move(c, p, d) ==
    /\ pc = "event_loop"
    /\ events < MaxEvents
    /\ c \in DOMAIN clients
    /\ ~clients[c].added
    /\ MkView(p, d) # clients[c].view
    /\ p \in region
    /\ clients' = [clients EXCEPT ![c].view = MkView(p, d)]
    /\ EventFrame

\* A client disconnects and is despawned.
Disconnect(c) ==
    /\ pc = "event_loop"
    /\ events < MaxEvents
    /\ c \in DOMAIN clients
    /\ clients' = [d \in DOMAIN clients \ {c} |-> clients[d]]
    /\ EventFrame

\* ------------------------------------------------------ systems of the tick
\* The event loop is over; the first system of the schedule is next.
BeginUpdate ==
    /\ pc = "event_loop"
    /\ pc' = Schedule[1]
    /\ todo' = DOMAIN clients
    /\ UNCHANGED <<region, clients, chunks, pending, sender_q, receiver_q,
                   loading, lost, warned, to_send, drained, ran, events,
                   panicked, worker_alive, evicted>>

remove_unviewed_chunks ==
    /\ pc = "remove_unviewed_chunks"
    /\ chunks' = Retained(chunks)
    /\ evicted' = chunks \ Retained(chunks)
    /\ ran' = Append(ran, "evict")
    /\ pc' = After("remove_unviewed_chunks")
    /\ UNCHANGED <<region, clients, pending, sender_q, receiver_q, loading, lost,
                   warned, todo, to_send, drained, events, panicked, worker_alive>>

\* One iteration of the loop over the clients.
UpdateClient(c) ==
    /\ pc = "update_client_views"
    /\ c \in todo
    /\ pending' = QueueEach(pending, chunks, clients[c].view, Candidates(clients[c]))
    /\ todo' = todo \ {c}
    /\ UNCHANGED <<region, clients, chunks, sender_q, receiver_q, loading,
                   lost, warned, pc, to_send, drained, ran, events, panicked,
                   worker_alive, evicted>>

\* The loop over the clients is over.
UpdateDone ==
    /\ pc = "update_client_views"
    /\ todo = {}
    /\ pc' = After("update_client_views")
    /\ ran' = Append(ran, "want")
    /\ UNCHANGED <<region, clients, chunks, pending, sender_q, receiver_q,
                   loading, lost, warned, todo, to_send, drained, events,
                   panicked, worker_alive, evicted>>

\* send_recv_chunks, first loop: insert the chunks that finished loading.
\* send_recv_chunks with a receive that waits for a result.
RecvChunksBlocking ==
    /\ pc = "send_recv_chunks"
    /\ receiver_q # <<>>
    /\ LET r == Integrate(chunks, pending, TRUE, receiver_q)
       IN /\ chunks' = r.inst
          /\ pending' = r.pend
          /\ panicked' = ~r.ok
          /\ pc' = IF r.ok THEN "send" ELSE "panicked"
    /\ drained' = Range(receiver_q)
    /\ receiver_q' = <<>>
    /\ ran' = Append(ran, "integrate")
    /\ UNCHANGED <<region, clients, sender_q, loading, lost, warned, todo,
                   to_send, events, worker_alive, evicted>>

\* send_recv_chunks that integrates only the columns some client views.
RecvChunksViewedOnly ==
    /\ pc = "send_recv_chunks"
    /\ LET r == Integrate(chunks, pending, TRUE,
                          SelectSeq(receiver_q, LAMBDA pos : IsViewed(pos)))
       IN /\ chunks' = r.inst
          /\ pending' = r.pend
          /\ panicked' = ~r.ok
          /\ pc' = IF r.ok THEN "send" ELSE "panicked"
    /\ drained' = Range(receiver_q)
    /\ receiver_q' = <<>>
    /\ ran' = Append(ran, "integrate")
    /\ UNCHANGED <<region, clients, sender_q, loading, lost, warned, todo,
                   to_send, events, worker_alive, evicted>>

RecvChunks ==
    /\ pc = "send_recv_chunks"
    /\ LET r == Integrate(chunks, pending, TRUE, receiver_q)
       IN /\ chunks' = r.inst
          /\ pending' = r.pend
          /\ panicked' = ~r.ok
          /\ pc' = IF r.ok THEN "send" ELSE "panicked"
    /\ drained' = Range(receiver_q)
    /\ receiver_q' = <<>>
    /\ ran' = Append(ran, "integrate")
    /\ UNCHANGED <<region, clients, sender_q, loading, lost, warned, todo,
                   to_send, events, worker_alive, evicted>>

\* send_recv_chunks that unwraps the result of try_send.
SendChunksUnwrap ==
    /\ pc = "send"
    /\ IF worker_alive \/ Dispatchable(pending) = {}
       THEN /\ \E sorted \in SortedOrders({<<pending[p][1], p>> :
                                               p \in Dispatchable(pending)}) :
                  /\ to_send' = sorted
                  /\ sender_q' = sender_q \o Positions(sorted)
            /\ pending' = TakeAll(pending)
            /\ ran' = Append(ran, "dispatch")
            /\ pc' = After("send_recv_chunks")
            /\ UNCHANGED panicked
       ELSE /\ panicked' = TRUE
            /\ pc' = "panicked"
            /\ UNCHANGED <<to_send, sender_q, pending, ran>>
    /\ UNCHANGED <<region, clients, chunks, receiver_q, loading, lost, warned, todo,
                   drained, events, worker_alive, evicted>>

\* send_recv_chunks, the rest: take, sort and send.
SendChunks ==
    /\ pc = "send"
    /\ \E sorted \in SortedOrders({<<pending[p][1], p>> : p \in Dispatchable(pending)}) :
          /\ to_send' = sorted
          /\ sender_q' = TrySendAll(sender_q, worker_alive, Positions(sorted))
    /\ pending' = TakeAll(pending)
    /\ ran' = Append(ran, "dispatch")
    /\ pc' = After("send_recv_chunks")
    /\ UNCHANGED <<region, clients, chunks, receiver_q, loading, lost, warned,
                   todo, drained, events, panicked, worker_alive, evicted>>

\* The tick is over: every client's view becomes its old view.
EndTick ==
    /\ pc = "end"
    /\ clients' = [c \in DOMAIN clients |->
                      [clients[c] EXCEPT !.old_view = clients[c].view,
                                         !.added = FALSE]]
    /\ to_send' = <<>>
    /\ drained' = {}
    /\ evicted' = {}
    /\ ran' = <<>>
    /\ pc' = "event_loop"
    /\ UNCHANGED <<region, chunks, pending, sender_q, receiver_q, loading, lost,
                   warned, todo, events, panicked, worker_alive>>

\* A step of the main thread's systems.
TickStep ==
    \/ BeginUpdate
    \/ remove_unviewed_chunks
    \/ \E c \in ClientIds : UpdateClient(c)
    \/ UpdateDone
    \/ RecvChunks
    \/ SendChunks
    \/ EndTick

\* ---------------------------------------------------------------- the worker
\* A worker that takes the position sent last.
WorkerRecvLast ==
    /\ worker_alive
    /\ loading = None
    /\ sender_q # <<>>
    /\ loading' = Some(sender_q[Len(sender_q)])
    /\ sender_q' = SubSeq(sender_q, 1, Len(sender_q) - 1)
    /\ UNCHANGED <<receiver_q, worker_alive, lost, warned>>
    /\ UNCHANGED mainVars

\* receiver.recv() returns a position.
WorkerRecv ==
    /\ worker_alive
    /\ loading = None
    /\ sender_q # <<>>
    /\ loading' = Some(Head(sender_q))
    /\ sender_q' = Tail(sender_q)
    /\ UNCHANGED <<receiver_q, worker_alive, lost, warned>>
    /\ UNCHANGED mainVars

\* A worker that inserts the chunk into the instance itself.
WorkerSendInserts ==
    /\ loading # None
    /\ chunks' = chunks \cup {loading[1]}
    /\ pending' = RemoveKey(pending, loading[1])
    /\ loading' = None
    /\ UNCHANGED <<sender_q, receiver_q, worker_alive, lost, warned>>
    /\ UNCHANGED <<region, clients, pc, todo, to_send, drained, evicted, ran, events,
                   panicked>>

\* get_chunk returned Ok(Some(chunk)): the result is sent.
WorkerSend ==
    /\ loading # None
    /\ receiver_q' = Append(receiver_q, loading[1])
    /\ loading' = None
    /\ UNCHANGED <<sender_q, worker_alive, lost, warned>>
    /\ UNCHANGED mainVars

\* A worker that sends an empty chunk for a column the world does not have.
WorkerSkipSendsEmpty ==
    /\ loading # None
    /\ Cardinality(lost) < MaxFailures
    /\ lost' = lost \cup {loading[1]}
    /\ receiver_q' = Append(receiver_q, loading[1])
    /\ loading' = None
    /\ UNCHANGED <<sender_q, worker_alive, warned>>
    /\ UNCHANGED mainVars

\* get_chunk returned Ok(None): nothing is sent.
WorkerSkip ==
    /\ loading # None
    /\ Cardinality(lost) < MaxFailures
    /\ lost' = lost \cup {loading[1]}
    /\ loading' = None
    /\ UNCHANGED <<sender_q, receiver_q, worker_alive, warned>>
    /\ UNCHANGED mainVars

\* A worker that logs the warning and sends an empty chunk in its place.
WorkerWarnSendsEmpty ==
    /\ loading # None
    /\ Cardinality(lost) < MaxFailures
    /\ lost' = lost \cup {loading[1]}
    /\ warned' = warned \cup {loading[1]}
    /\ receiver_q' = Append(receiver_q, loading[1])
    /\ loading' = None
    /\ UNCHANGED <<sender_q, worker_alive>>
    /\ UNCHANGED mainVars

\* get_chunk returned Err: a warning is logged, nothing is sent.
WorkerWarn ==
    /\ loading # None
    /\ Cardinality(lost) < MaxFailures
    /\ lost' = lost \cup {loading[1]}
    /\ warned' = warned \cup {loading[1]}
    /\ loading' = None
    /\ UNCHANGED <<sender_q, receiver_q, worker_alive>>
    /\ UNCHANGED mainVars

\* The worker thread dies inside get_chunk: its end of the main-to-worker
\* channel is dropped with what the channel holds; the results it has sent
\* stay on the worker-to-main channel.
WorkerDie ==
    /\ loading # None
    /\ worker_alive' = FALSE
    /\ loading' = None
    /\ sender_q' = <<>>
    /\ UNCHANGED <<receiver_q, lost, warned>>
    /\ UNCHANGED mainVars

\* ------------------------------------------------------------ specification
Next ==
    \/ \E d \in 0..MaxViewDist : Join(d)
    \/ \E c \in ClientIds, p \in region, d \in 0..MaxViewDist : Move(c, p, d)
    \/ \E c \in ClientIds : Disconnect(c)
    \/ BeginUpdate
    \/ remove_unviewed_chunks
    \/ \E c \in ClientIds : UpdateClient(c)
    \/ UpdateDone
    \/ RecvChunks
    \/ SendChunks
    \/ EndTick
    \/ WorkerRecv
    \/ WorkerSend
    \/ WorkerSkip
    \/ WorkerWarn
    \/ WorkerDie

Spec == Init /\ [][Next]_vars

\* ------------------------------------------- the single-viewer scenario
\* The view of a client that stands at the spawn with view distance 1.
SpawnView == MkView(SpawnChunk, 1)

\* The columns within distance 1 of the spawn column on both axes.
SpawnSquare == {p \in (-1..1) \X (-1..1) : TRUE}

\* An empty world that follows the columns around the spawn.
InitE2E ==
    /\ region = SpawnSquare
    /\ clients = <<>>
    /\ chunks = {}
    /\ pending = <<>>
    /\ sender_q = <<>>
    /\ receiver_q = <<>>
    /\ loading = None
    /\ worker_alive = TRUE
    /\ lost = {}
    /\ warned = {}
    /\ pc = "event_loop"
    /\ todo = {}
    /\ to_send = <<>>
    /\ drained = {}
    /\ evicted = {}
    /\ ran = <<>>
    /\ events = 0
    /\ panicked = FALSE

\* The one viewer joins; it never moves.
JoinSingle ==
    /\ clients = <<>>
    /\ events = 0
    /\ Join(SpawnView.dist)

\* Every load succeeds and no other input arrives.
NextE2E ==
    \/ JoinSingle
    \/ BeginUpdate
    \/ remove_unviewed_chunks
    \/ \E c \in ClientIds : UpdateClient(c)
    \/ UpdateDone
    \/ RecvChunks
    \/ SendChunks
    \/ EndTick
    \/ WorkerRecv
    \/ WorkerSend

SpecE2E == InitE2E /\ [][NextE2E]_vars

\* ------------------------------------ fair scheduling, every load succeeds
\* The worker stays alive and get_chunk returns Ok(Some(chunk)) every time.
NextLive ==
    \/ \E d \in 0..MaxViewDist : Join(d)
    \/ \E c \in ClientIds, p \in region, d \in 0..MaxViewDist : Move(c, p, d)
    \/ \E c \in ClientIds : Disconnect(c)
    \/ BeginUpdate
    \/ remove_unviewed_chunks
    \/ \E c \in ClientIds : UpdateClient(c)
    \/ UpdateDone
    \/ RecvChunks
    \/ SendChunks
    \/ EndTick
    \/ WorkerRecv
    \/ WorkerSend

\* The app runs its schedule tick after tick and the worker thread runs its
\* loop.
Fairness ==
    /\ WF_vars(TickStep)
    /\ WF_vars(WorkerRecv)
    /\ WF_vars(WorkerSend)

SpecLive == Init /\ [][NextLive]_vars /\ Fairness

\* The app runs its schedule tick after tick; the worker may stall, fail or
\* terminate.
SpecTick == Init /\ [][Next]_vars /\ WF_vars(TickStep)

\* ------------------------------------------------------------- properties
\* The positions a step appends to the main-to-worker channel.
Appended ==
    IF Len(sender_q') > Len(sender_q)
    THEN SubSeq(sender_q', Len(sender_q) + 1, Len(sender_q'))
    ELSE <<>>

\* How many times pos is on its way: in either channel or in the worker.
Copies(pos) ==
    Cardinality({i \in 1..Len(sender_q) : sender_q[i] = pos})
    + Cardinality({i \in 1..Len(receiver_q) : receiver_q[i] = pos})
    + (IF loading = Some(pos) THEN 1 ELSE 0)

InFlight(pos) == pos \in DOMAIN pending /\ pending[pos] = None

Queued(pos) == pos \in DOMAIN pending /\ pending[pos] # None

\* The clients update_client_views has visited in this tick.
Visited == DOMAIN clients \ todo

\* The columns queue_pos has been called on in this tick.
Wanted == UNION {Candidates(clients[c]) : c \in Visited}

\* A step sends a column only if its entry is Queued, once, and leaves it
\* InFlight; an InFlight entry stays InFlight until it is removed.
C1_Step ==
    /\ \A i \in 1..Len(Appended) :
          /\ Queued(Appended[i])
          /\ Appended[i] \in DOMAIN pending' /\ pending'[Appended[i]] = None
          /\ \A j \in 1..Len(Appended) : Appended[j] = Appended[i] => j = i
    /\ \A pos \in DOMAIN pending :
          (pending[pos] = None /\ pos \in DOMAIN pending') => pending'[pos] = None

\* A column is on its way at most once, and only while InFlight.
C1_Once == \A pos \in region : Copies(pos) <= 1 /\ (Copies(pos) = 1 => InFlight(pos))

\* C1: a column is sent to the worker only in a step that finds its entry
\* Queued, once in that step, and the step leaves it InFlight; an InFlight
\* entry stays InFlight until it is removed, whatever queue_pos is called on
\* it; so a column is on its way at most once, and only while InFlight.
C1_NoDuplicateDispatch == []C1_Once /\ [][C1_Step]_vars

\* queue_pos has been called on a column whose entry was InFlight.
C1_Witness ==
    /\ pc = "send_recv_chunks"
    /\ \E pos \in Wanted : InFlight(pos) /\ pos \notin chunks

\* C2: the assertion on remove never fails: every result on the
\* worker-to-main channel is there once, and its column is InFlight.
C2_ResultsAreInFlight ==
    /\ ~panicked
    /\ \A i \in 1..Len(receiver_q) :
          /\ InFlight(receiver_q[i])
          /\ \A j \in 1..Len(receiver_q) : receiver_q[j] = receiver_q[i] => j = i

\* The drain loop has integrated a result.
C2_Witness == pc = "send" /\ drained # {} /\ drained \subseteq chunks

\* C3: no column of the instance has an entry in pending.
C3_StoredNotPending == chunks \cap DOMAIN pending = {}

\* queue_pos has been called on a column that is in the instance, while
\* other columns have entries.
C3_Witness ==
    /\ pc = "send_recv_chunks"
    /\ Wanted \cap chunks # {}
    /\ DOMAIN pending # {}

\* Some client's current view holds the column.
InSomeView(pos) == \E c \in DOMAIN clients : pos \in ViewChunks(clients[c].view)

\* C4 as stated: when a tick is over, every column of the instance is in
\* some client's current view.
C4_Stated == pc = "end" => \A pos \in chunks : InSomeView(pos)

\* C4 as amended: between the eviction and the drain loop of a tick every
\* column of the instance is in some client's current view; when the tick is
\* over, every column of the instance is in some client's current view or
\* was inserted by the drain loop of this tick.
C4_ViewedOrJustInserted ==
    /\ (pc \in {"update_client_views", "send_recv_chunks"} /\ ran # <<>>)
          => \A pos \in chunks : InSomeView(pos)
    /\ pc = "end" => \A pos \in chunks : InSomeView(pos) \/ pos \in drained

\* A tick is over, and the instance holds a column that no client views
\* next to one that a client views.
C4_Witness ==
    /\ pc = "end"
    /\ \E pos \in chunks : ~InSomeView(pos) /\ pos \in drained
    /\ \E pos \in chunks : InSomeView(pos)

\* A step sends no wanted column whose result is drained or waiting.
C5_Step ==
    \A pos \in Wanted :
        (pos \in drained \/ pos \in Range(receiver_q)) => pos \notin Range(Appended)

\* C5: a step that sends positions to the worker sends no column that
\* queue_pos was called on in this tick and whose result was drained in this
\* tick or is waiting on the worker-to-main channel.
C5_NotRequestedAgain == [][C5_Step]_vars

\* A tick is over in which queue_pos was called on a column whose result
\* the drain loop of the same tick integrated.
C5_Witness == pc = "end" /\ Wanted \cap drained # {}

\* Step a has run before every run of step b in this tick.
Precedes(a, b) ==
    \A j \in 1..Len(ran) : ran[j] = b => \E i \in 1..(j - 1) : ran[i] = a

\* C6 as stated: in every tick the drain loop runs before the calls of
\* queue_pos and before the dispatch.
C6_Stated == Precedes("integrate", "want") /\ Precedes("integrate", "dispatch")

\* C6 as amended: in every tick the eviction runs first, then the calls of
\* queue_pos, then the drain loop, then the dispatch.
C6_WantThenIntegrateThenDispatch ==
    /\ Precedes("evict", "want")
    /\ Precedes("want", "integrate")
    /\ Precedes("integrate", "dispatch")

\* A tick is over in which queue_pos was called, a result was integrated
\* and a position was sent.
C6_Witness ==
    /\ pc = "end"
    /\ Wanted # {}
    /\ drained # {}
    /\ to_send # <<>>

\* The priorities queue_pos has been called with on pos in this tick.
Supplied(pos) ==
    {DistanceSquared(clients[c].view.pos, pos) :
        c \in {d \in Visited : pos \in Candidates(clients[d])}}

Least(S) == CHOOSE m \in S : \A n \in S : m <= n

\* An entry with a priority holds the least priority supplied in this tick.
C7_Least ==
    \A pos \in DOMAIN pending :
        pending[pos] # None =>
            /\ Supplied(pos) # {}
            /\ pending[pos] = Some(Least(Supplied(pos)))

\* A step never raises the priority of an entry.
C7_Step ==
    \A pos \in DOMAIN pending :
        (pending[pos] # None /\ pos \in DOMAIN pending' /\ pending'[pos] # None)
            => pending'[pos][1] <= pending[pos][1]

\* C7: an entry with a priority holds the least of the priorities queue_pos
\* was called with on its column in this tick, and a step never raises the
\* priority of an entry.
C7_MinimumPriority == []C7_Least /\ [][C7_Step]_vars

\* queue_pos has been called on one column with two different priorities.
C7_Witness ==
    \E pos \in DOMAIN pending :
        pending[pos] # None /\ Cardinality(Supplied(pos)) >= 2

\* The positions a step sends are in ascending order of priority.
C8_Step ==
    \A i, j \in 1..Len(Appended) :
        (i < j /\ Queued(Appended[i]) /\ Queued(Appended[j]))
            => pending[Appended[i]][1] <= pending[Appended[j]][1]

\* to_send is in ascending order of priority.
C8_Sorted ==
    \A i, j \in 1..Len(to_send) : i < j => to_send[i][1] <= to_send[j][1]

\* C8: the positions a step sends to the worker are in ascending order of
\* the priority their entries held, and to_send is in ascending order.
C8_AscendingDispatch == []C8_Sorted /\ [][C8_Step]_vars

\* A tick has sent positions of different priorities.
C8_Witness ==
    /\ pc = "end"
    /\ \E i, j \in 1..Len(to_send) : to_send[i][1] < to_send[j][1]

\* C9 as stated: when a tick is over, a column has an entry exactly if it
\* is in some client's current view and not in the instance.
C9_Stated ==
    pc = "end" =>
        \A pos \in region :
            pos \in DOMAIN pending <=> (InSomeView(pos) /\ pos \notin chunks)

\* C9 as amended: when a tick is over, a column that is in some client's
\* current view and not in the instance has an entry, and a column with an
\* entry is not in the instance.
C9_ViewedMissingHasEntry ==
    pc = "end" =>
        \A pos \in region :
            /\ (InSomeView(pos) /\ pos \notin chunks) => pos \in DOMAIN pending
            /\ pos \in DOMAIN pending => pos \notin chunks

\* A tick is over; one entry belongs to a column that a client views and
\* another to a column that no client views.
C9_Witness ==
    /\ pc = "end"
    /\ \E pos \in DOMAIN pending : InSomeView(pos)
    /\ \E pos \in DOMAIN pending : ~InSomeView(pos)

\* C10: in the single-viewer scenario the tick of the join sends exactly the
\* nine columns of the view, each with its squared distance from the viewer
\* as priority; once the worker has returned everything it was sent and a
\* drain loop has run, the instance holds exactly those nine columns and
\* pending is empty.
C10_SingleViewer ==
    /\ (pc = "end" /\ \E c \in DOMAIN clients : clients[c].added) =>
          /\ Cardinality(ViewChunks(SpawnView)) = 9
          /\ Len(to_send) = 9
          /\ Range(Positions(to_send)) = ViewChunks(SpawnView)
          /\ \A i \in 1..Len(to_send) :
                to_send[i][1] = DistanceSquared(SpawnChunk, to_send[i][2])
          /\ DOMAIN pending = ViewChunks(SpawnView)
          /\ chunks = {}
    /\ (/\ \E c \in DOMAIN clients : ~clients[c].added
        /\ sender_q = <<>>
        /\ loading = None
        /\ receiver_q = <<>>) =>
          /\ chunks = ViewChunks(SpawnView)
          /\ pending = <<>>

\* The worker has returned the nine chunks and a tick has integrated them.
C10_Witness ==
    /\ pc = "end"
    /\ Cardinality(chunks) = 9
    /\ pending = <<>>
    /\ sender_q = <<>> /\ loading = None /\ receiver_q = <<>>

\* The columns some client's view has left since the last tick and that no
\* client views now.
Dropped ==
    {pos \in region :
        /\ ~InSomeView(pos)
        /\ \E c \in DOMAIN clients :
              ~clients[c].added /\ pos \in ViewDiff(clients[c].old_view, clients[c].view)}

\* The eviction of a tick removes every dropped column from the instance.
C11_Step ==
    (pc = "remove_unviewed_chunks" /\ pc' # pc) =>
        /\ Dropped \cap chunks' = {}
        /\ evicted' = chunks \ chunks'
        /\ Dropped \cap chunks \subseteq evicted'

\* In a tick no dropped column gets a priority or is sent to the worker.
C11_NoRequest ==
    pc # "event_loop" =>
        \A pos \in Dropped :
            /\ ~Queued(pos)
            /\ pos \notin Range(Positions(to_send))
            /\ ("evict" \in Range(ran) /\ "integrate" \notin Range(ran))
                  => pos \notin chunks

\* C11: when views shrink, the eviction of the next tick removes from the
\* instance every loaded column that a view has left and no client views,
\* and the tick calls queue_pos on none of them and sends none of them.
C11_Departure == []C11_NoRequest /\ [][C11_Step]_vars

\* A tick is over in which a client kept its place with a smaller view
\* distance: the column it stands on is still in the instance and a column
\* its view left was evicted.
C11_Witness ==
    /\ pc = "end"
    /\ \E c \in DOMAIN clients :
          /\ clients[c].view.pos = clients[c].old_view.pos
          /\ clients[c].view.dist < clients[c].old_view.dist
          /\ clients[c].view.pos \in chunks
    /\ Dropped \cap evicted # {}

\* A column whose load failed with a warning keeps its entry without a
\* priority, is not in the instance and is nowhere on its way.
C12_Stranded ==
    \A pos \in warned : InFlight(pos) /\ pos \notin chunks /\ Copies(pos) = 0

\* A step that logs a warning sends no result, and no step sends a column
\* whose load failed with a warning.
C12_Step ==
    /\ warned' # warned => receiver_q' = receiver_q
    /\ \A pos \in warned : pos \notin Range(Appended)

\* C12: when get_chunk fails the worker sends no result, and from then on
\* the entry of the column stays without a priority: it is never given one,
\* never removed, and the column is never sent to the worker again, also
\* when clients enter its view again.
C12_FailedLoadStranded == []C12_Stranded /\ [][C12_Step]_vars

\* A tick is over in which a client's view entered a column that was sent
\* in an earlier tick and whose load failed with a warning; the tick did not
\* send it.
C12_Witness ==
    /\ pc = "end"
    /\ \E pos \in warned :
          /\ pos \notin Range(Positions(to_send))
          /\ \E c \in Visited : ~clients[c].added /\ pos \in Candidates(clients[c])

\* With the worker gone the assertion still holds and the tick has a step
\* to take.
C13_Runs == ~worker_alive => (~panicked /\ ENABLED TickStep)

\* With the worker gone the dispatch puts nothing on the channel and leaves
\* every taken entry without a priority, and an entry without a priority
\* whose result is not waiting stays as it is.
C13_Step ==
    ~worker_alive =>
        /\ (pc = "send" /\ pc' # pc) =>
              /\ sender_q' = <<>>
              /\ \A pos \in DOMAIN pending : InFlight(pos)'
        /\ \A pos \in region :
              (InFlight(pos) /\ pos \notin Range(receiver_q)) => InFlight(pos)'

\* With the worker gone no step adds a column to the instance.
C13_NothingAdded == ~worker_alive => chunks' \subseteq chunks

\* With the worker gone a step adds to the instance only columns whose
\* results were waiting on the worker-to-main channel.
C13_OnlyWaitingAdded ==
    ~worker_alive => chunks' \subseteq (chunks \cup Range(receiver_q))

\* C13 as stated: once the worker has terminated the tick still runs, every
\* column taken for dispatch stays InFlight for good, and no column is ever
\* added to the instance.
C13_Stated == []C13_Runs /\ [][C13_Step /\ C13_NothingAdded]_vars

\* C13 as amended: once the worker has terminated the tick still runs, every
\* column taken for dispatch stays InFlight for good, and no column is added
\* to the instance except those whose results the worker had sent before it
\* terminated and the tick had not yet drained.
C13_DeadWorkerDegrades == []C13_Runs /\ [][C13_Step /\ C13_OnlyWaitingAdded]_vars

\* A tick is over that took columns for dispatch after the worker had
\* terminated, while a result the worker had sent is still waiting.
C13_Witness ==
    /\ pc = "end"
    /\ ~worker_alive
    /\ to_send # <<>>
    /\ sender_q = <<>>
    /\ receiver_q # <<>>

\* The dispatch returns the Queued columns, each once and with its priority,
\* leaves every entry InFlight and returns no column that was InFlight.
C14_Step ==
    (pc = "send" /\ pc' # pc /\ ~panicked') =>
        LET queued == {pos \in DOMAIN pending : Queued(pos)}
        IN /\ Range(to_send') = {<<pending[pos][1], pos>> : pos \in queued}
           /\ Len(to_send') = Cardinality(queued)
           /\ DOMAIN pending' = DOMAIN pending
           /\ \A pos \in DOMAIN pending : InFlight(pos)'
           /\ \A pos \in DOMAIN pending :
                 InFlight(pos) => pos \notin Range(Positions(to_send'))

\* After the dispatch of a tick no entry is Queued.
C14_NoneQueued == pc = "end" => \A pos \in DOMAIN pending : ~Queued(pos)

\* C14: the dispatch step returns exactly the Queued columns with their
\* priorities, turns each InFlight, leaves the InFlight entries alone and out
\* of the result, and no Queued entry remains after it.
C14_TakeDispatchable == []C14_NoneQueued /\ [][C14_Step]_vars

\* A dispatch has returned some columns while another entry, InFlight from an
\* earlier tick, stayed out of the result.
C14_Witness ==
    /\ pc = "end"
    /\ to_send # <<>>
    /\ \E pos \in DOMAIN pending : pos \notin Range(Positions(to_send))

\* A step of the worker thread.
C15_WorkerStep == loading' # loading \/ worker_alive' # worker_alive

\* What a step may do to the instance and the table.
C15_Step ==
    /\ chunks' \ chunks # {} =>
          /\ pc = "send_recv_chunks" /\ pc' # pc
          /\ chunks' \ chunks \subseteq Range(receiver_q)
    /\ chunks \ chunks' # {} =>
          /\ pc = "remove_unviewed_chunks" /\ pc' # pc
          /\ \A pos \in chunks \ chunks' : ~IsViewed(pos)
    /\ C15_WorkerStep => (chunks' = chunks /\ pending' = pending)
    /\ pc \in {"update_client_views", "send"} => chunks' = chunks

\* C15: a column enters the instance only in the drain loop and as one of the
\* results drained, leaves it only in remove_unviewed_chunks and only when no
\* client views it; the worker's steps, update_client_views and the dispatch
\* leave the instance unchanged, and the worker's steps leave the table
\* unchanged.
C15_StoreLifecycle == [][C15_Step]_vars

\* A tick is over that evicted a column and inserted another.
C15_Witness == pc = "end" /\ evicted # {} /\ drained # {} /\ drained \subseteq chunks

\* The drain loop inserts every result and removes its entry whether or not
\* a client views the column; nothing else removes an entry; a client's
\* leaving touches neither the table nor the channels nor the worker.
C16_Step ==
    /\ (pc = "send_recv_chunks" /\ pc' # pc) =>
          \A pos \in Range(receiver_q) : pos \in chunks' /\ pos \notin DOMAIN pending'
    /\ DOMAIN pending \ DOMAIN pending' \subseteq chunks' \ chunks
    /\ DOMAIN clients' # DOMAIN clients =>
          UNCHANGED <<pending, sender_q, receiver_q, loading>>

\* C16: a column that was dispatched and that no client views any more is
\* still loaded, inserted into the instance and removed from the table, and
\* a column of the instance that no client views is removed from the instance
\* by a later tick unless a client comes to view it.
C16_NoCancellation ==
    /\ [][C16_Step]_vars
    /\ \A pos \in Strip :
          /\ (InFlight(pos) /\ ~InSomeView(pos))
                 ~> (pos \in chunks /\ pos \notin DOMAIN pending)
          /\ (pos \in chunks /\ ~InSomeView(pos))
                 ~> (pos \notin chunks \/ InSomeView(pos))

\* A tick is over that inserted a column no client views, after the last
\* client had left.
C16_Witness ==
    /\ pc = "end"
    /\ DOMAIN clients = {}
    /\ \E pos \in drained : pos \in chunks /\ pos \notin DOMAIN pending

\* The positions on their way, oldest first: the results not yet drained,
\* the position the worker is loading, the positions not yet received.
Pipeline == receiver_q \o loading \o sender_q

\* A step keeps the order of the positions on their way: it appends the
\* dispatched positions at the end, or drains the results from the front,
\* or drops the position whose load failed, or the worker terminates with
\* the positions it had not sent results for; and the worker receives the
\* position at the head of the channel.
C17_Step ==
    /\ \/ Pipeline' = Pipeline \o Positions(to_send') /\ pc = "send"
       \/ Pipeline' = Pipeline
       \/ /\ pc = "send_recv_chunks"
          /\ Pipeline' = loading \o sender_q
       \/ /\ loading # None /\ loading' = None
          /\ Pipeline' = receiver_q \o sender_q
       \/ /\ worker_alive /\ ~worker_alive'
          /\ Pipeline' = receiver_q
    /\ (loading = None /\ loading' # None) =>
          /\ loading' = Some(Head(sender_q))
          /\ sender_q' = Tail(sender_q)
          /\ receiver_q' = receiver_q
    /\ (receiver_q' # receiver_q /\ receiver_q' # <<>>) =>
          /\ loading # None
          /\ receiver_q' = Append(receiver_q, loading[1])

\* C17: the worker takes the positions in the order they were sent and its
\* results reach the tick in that order, so a position dispatched in an
\* earlier tick is loaded before every position dispatched in a later tick,
\* whatever their priorities were.
C17_WorkerFifo == [][C17_Step]_vars

\* A dispatch has put positions on the channel behind positions of an
\* earlier tick that the worker has not received yet.
C17_Witness ==
    /\ pc = "end"
    /\ worker_alive
    /\ to_send # <<>>
    /\ Len(sender_q) > Len(to_send)

\* The main thread has a step to take.
C18_CanStep == pc # "panicked" => ENABLED TickStep

\* The drain loop takes the results that are on the channel and nothing
\* else; a result the worker sends at any other moment waits on the channel.
C18_Step ==
    /\ (pc = "send_recv_chunks" /\ pc' # pc) =>
          /\ drained' = Range(receiver_q)
          /\ chunks' = chunks \cup Range(receiver_q)
          /\ receiver_q' = <<>>
          /\ UNCHANGED <<loading, sender_q>>
    /\ ~(pc = "send_recv_chunks" /\ pc' # pc) =>
          /\ Len(receiver_q') >= Len(receiver_q)
          /\ SubSeq(receiver_q', 1, Len(receiver_q)) = receiver_q
          /\ chunks' \subseteq chunks

\* C18: whatever the worker does or fails to do, the main thread always has
\* a step to take and every tick it begins comes to its end; the drain loop
\* takes only the results on the channel at that moment, and a result sent
\* later is inserted by a later tick.
C18_TickNeverWaits ==
    /\ []C18_CanStep
    /\ [][C18_Step]_vars
    /\ (pc # "event_loop") ~> (pc = "event_loop")
    /\ \A pos \in Strip : (pos \in Range(receiver_q)) ~> (pos \in drained)

\* A tick is over whose drain loop ran while the worker was loading a column,
\* and the result arrived after the loop.
C18_Witness ==
    /\ pc = "end"
    /\ drained # {}
    /\ receiver_q # <<>>
    /\ Range(receiver_q) \cap chunks = {}

\* A column leaves the instance only when no client views it.
C19_Step == \A pos \in chunks \ chunks' : ~InSomeView(pos)

\* A viewed column that is neither in the instance nor in the table gets an
\* entry or a chunk, or stops being viewed.
C19_Noticed(pos) ==
    (InSomeView(pos) /\ pos \notin chunks /\ pos \notin DOMAIN pending)
        ~> (pos \in DOMAIN pending \/ pos \in chunks \/ ~InSomeView(pos))

\* C19: with the worker alive, every load successful and both threads
\* scheduled fairly, a column that stays in some client's view from some
\* moment on is in the instance from some moment on; it stays in the instance
\* while it is viewed, and it is never left for good outside both the instance
\* and the table.
C19_ViewedEventuallyLoaded ==
    /\ [][C19_Step]_vars
    /\ \A pos \in Strip :
          /\ <>[]InSomeView(pos) => <>[](pos \in chunks)
          /\ C19_Noticed(pos)

\* After joins, moves and an eviction, a tick is over with every viewed
\* column in the instance.
C19_Witness ==
    /\ pc = "end"
    /\ events >= 2
    /\ evicted # {}
    /\ \E pos \in region : InSomeView(pos)
    /\ \A pos \in region : InSomeView(pos) => pos \in chunks

\* The columns the world turned out not to have.
Missing == lost \ warned

\* A column the world does not have keeps its entry without a priority, is
\* not in the instance and is nowhere on its way.
C20_Stranded ==
    \A pos \in Missing : InFlight(pos) /\ pos \notin chunks /\ Copies(pos) = 0

\* The step that finds a column missing sends no result and logs nothing,
\* a missing column stays missing, and no step sends it again.
C20_Step ==
    /\ \A pos \in Missing' \ Missing :
          /\ loading = Some(pos)
          /\ receiver_q' = receiver_q
          /\ warned' = warned
    /\ Missing \subseteq Missing'
    /\ \A pos \in Missing : pos \notin Range(Appended)

\* C20: when get_chunk returns Ok(None) the worker sends no result and logs
\* no warning, and from then on the entry of the column stays without a
\* priority as after a failed load: the column is never inserted, its entry
\* is never removed, and it is never sent to the worker again.
C20_MissingChunkStranded == []C20_Stranded /\ [][C20_Step]_vars

\* A tick is over in which a client's view entered a column that was sent in
\* an earlier tick and that the world does not have; the tick did not send
\* it.
C20_Witness ==
    /\ pc = "end"
    /\ \E pos \in Missing :
          /\ pos \notin Range(Positions(to_send))
          /\ \E c \in Visited : ~clients[c].added /\ pos \in Candidates(clients[c])

====
